---- MODULE Spec2Model ----
(***************************************************************************)
(* Model of the rectangle packer of gimpatlas.py: the height-slice         *)
(* silhouette kept by CygonRectanglePacker, the placement search           *)
(* (tryFindBestPlacement), the integration of a placed rectangle           *)
(* (integrateRectangle) and the two entry points TryPack and Pack.         *)
(* Indices into heightSlices are zero-based, as in the source.             *)
(***************************************************************************)
EXTENDS Integers, Sequences, FiniteSets, TLC

(* ---------------- bounds of the model ---------------- *)
MaxW == 4
MaxH == 4
MaxCalls == 3

(* ---------------- values ---------------- *)
\* Point(x, y), src lines 31-34
Point(x, y) == [x |-> x, y |-> y]

\* Python's None, the "no placement" result
None == [none |-> TRUE]

\* Point.__cmp__: compares the starting position of height slices
cmpWithHeight(self, other) ==
    IF self.x # other.x THEN self.x - other.x ELSE self.y - other.y
cmp(self, other) == self.x - other.x

\* "if placement:" in TryPack: None is false, every Point instance is true
\* because the class defines neither __nonzero__ nor __len__
Found(placement) == placement # None

\* "if not point:" in Pack, the same truth value negated
RaisesOnOrigin(point) == point = None \/ (point.x = 0 /\ point.y = 0)
Raises(point) == point = None

(* ---------------- list helpers (zero-based, Python semantics) ---------- *)
\* a[i], a negative index counts from the end
At(a, i) == IF i < 0 THEN a[Len(a) + i + 1] ELSE a[i + 1]

\* a[i] = e
SetAtNothing(a, i, e) == a
SetAt(a, i, e) == [a EXCEPT ![i + 1] = e]

\* a.insert(i, e)
Insert(a, i, e) == SubSeq(a, 1, i) \o <<e>> \o SubSeq(a, i + 1, Len(a))

\* del a[lo:hi]
DelRangeNothing(a, lo, hi) == a
DelRange(a, lo, hi) ==
    IF hi <= lo THEN a ELSE SubSeq(a, 1, lo) \o SubSeq(a, hi + 1, Len(a))

\* bisect.bisect_left(a, x, lo, hi)
RECURSIVE bisect_left(_, _, _, _)
bisect_left(a, x, lo, hi) ==
    IF lo < hi
    THEN LET mid == (lo + hi) \div 2
         IN  IF cmp(At(a, mid), x) < 0
             THEN bisect_left(a, x, mid + 1, hi)
             ELSE bisect_left(a, x, lo, mid)
    ELSE lo

\* binary_search(a, x, lo, hi): insertion position and whether x was there
binary_search(a, x, lo, hi) ==
    LET pos == bisect_left(a, x, lo, hi)
    IN  [pos |-> pos, hit |-> (pos # hi /\ cmp(At(a, pos), x) = 0)]

(* ---------------- tryFindBestPlacement ---------------- *)
\* bestSliceIndex = None
NoIndex == -1

\* the "for index in range(leftSliceIndex + 1, rightSliceIndex)" loop that
\* raises `highest` to the highest slice of the window
RECURSIVE HighestLoop(_, _, _, _)
HighestLoop(slices, index, rightSliceIndex, highest) ==
    IF index >= rightSliceIndex
    THEN highest
    ELSE HighestLoop(slices, index + 1, rightSliceIndex,
                     IF At(slices, index).y > highest
                     THEN At(slices, index).y
                     ELSE highest)

\* highest slice within the slices [leftSliceIndex, rightSliceIndex)
HighestSkipsLast(slices, leftSliceIndex, rightSliceIndex) ==
    HighestLoop(slices, leftSliceIndex + 1, rightSliceIndex - 1,
                At(slices, leftSliceIndex).y)
HighestLeftOnly(slices, leftSliceIndex, rightSliceIndex) ==
    At(slices, leftSliceIndex).y
Highest(slices, leftSliceIndex, rightSliceIndex) ==
    HighestLoop(slices, leftSliceIndex + 1, rightSliceIndex,
                At(slices, leftSliceIndex).y)

\* the same loop without the area width as the end of the last slice
RECURSIVE AdvanceRightNoAreaEnd(_, _, _, _)
AdvanceRightNoAreaEnd(slices, W, rightSliceIndex, rightRectangleEnd) ==
    IF rightSliceIndex < Len(slices)
    THEN IF At(slices, rightSliceIndex).x > rightRectangleEnd
         THEN rightSliceIndex
         ELSE AdvanceRightNoAreaEnd(slices, W, rightSliceIndex + 1,
                                    rightRectangleEnd)
    ELSE rightSliceIndex

\* inner while loop: advance the ending slice for the new starting position;
\* the result may be Len(slices) + 1 ("crossed the end of the slice array")
RECURSIVE AdvanceRight(_, _, _, _)
AdvanceRight(slices, W, rightSliceIndex, rightRectangleEnd) ==
    IF rightSliceIndex <= Len(slices)
    THEN LET rightSliceStart ==
                 IF rightSliceIndex = Len(slices)
                 THEN W
                 ELSE At(slices, rightSliceIndex).x
         IN  IF rightSliceStart > rightRectangleEnd
             THEN rightSliceIndex
             ELSE AdvanceRight(slices, W, rightSliceIndex + 1,
                               rightRectangleEnd)
    ELSE rightSliceIndex

\* the test that lets a position compete: it must not leave the packing area
FitsHeightInclusive(highest, rectangleHeight, H) == highest + rectangleHeight <= H
FitsHeight(highest, rectangleHeight, H) == highest + rectangleHeight < H

\* the candidate kept after looking at one position
KeepBest(best, leftSliceIndex, highest, rectangleHeight, H) ==
    IF FitsHeight(highest, rectangleHeight, H) /\ highest < best.score
    THEN [idx |-> leftSliceIndex, y |-> highest, score |-> highest]
    ELSE best

\* outer while loop of the search
RECURSIVE SearchLoop(_, _, _, _, _, _, _, _)
SearchLoop(slices, W, H, rectangleWidth, rectangleHeight, leftSliceIndex, rightSliceIndex, best) ==
    IF rightSliceIndex <= Len(slices)
    THEN LET highest == Highest(slices, leftSliceIndex, rightSliceIndex)
             best2 == KeepBest(best, leftSliceIndex, highest,
                               rectangleHeight, H)
             left2 == leftSliceIndex + 1
         IN  IF left2 >= Len(slices)
             THEN best2
             ELSE LET rightRectangleEnd ==
                          At(slices, left2).x + rectangleWidth
                      right2 == AdvanceRight(slices, W, rightSliceIndex,
                                             rightRectangleEnd)
                  IN  IF right2 > Len(slices)
                      THEN best2
                      ELSE SearchLoop(slices, W, H, rectangleWidth,
                                      rectangleHeight, left2, right2, best2)
    ELSE best

\* the positions the outer while loop looks at, in order: the slice index of
\* the left side, the end of the window and the value of `highest` there
RECURSIVE SearchTrace(_, _, _, _, _)
SearchTrace(slices, W, rectangleWidth, leftSliceIndex, rightSliceIndex) ==
    IF rightSliceIndex <= Len(slices)
    THEN LET here == [left |-> leftSliceIndex, right |-> rightSliceIndex,
                      highest |-> Highest(slices, leftSliceIndex,
                                          rightSliceIndex)]
             left2 == leftSliceIndex + 1
         IN  IF left2 >= Len(slices)
             THEN <<here>>
             ELSE LET rightRectangleEnd ==
                          At(slices, left2).x + rectangleWidth
                      right2 == AdvanceRight(slices, W, rightSliceIndex,
                                             rightRectangleEnd)
                  IN  IF right2 > Len(slices)
                      THEN <<here>>
                      ELSE <<here>> \o SearchTrace(slices, W, rectangleWidth,
                                                   left2, right2)
    ELSE <<>>

\* the positions looked at by tryFindBestPlacement(rectangleWidth, .)
Evaluated(slices, W, rectangleWidth) ==
    SearchTrace(slices, W, rectangleWidth, 0,
                bisect_left(slices, Point(rectangleWidth, 0), 0, Len(slices)))

tryFindBestPlacement(slices, W, H, rectangleWidth, rectangleHeight) ==
    LET best == SearchLoop(slices, W, H, rectangleWidth, rectangleHeight, 0,
                           bisect_left(slices, Point(rectangleWidth, 0),
                                       0, Len(slices)),
                           [idx |-> NoIndex, y |-> 0, score |-> W * H])
    IN  IF best.idx = NoIndex
        THEN None
        ELSE Point(At(slices, best.idx).x, best.y)

(* ---------------- integrateRectangle ---------------- *)
\* first half: the slice at the rectangle's left side
IntegrateLeft(slices, left, bottom) ==
    LET bs == binary_search(slices, Point(left, 0), 0, Len(slices))
    IN  IF bs.hit
        THEN [slices |-> SetAt(slices, bs.pos, Point(left, bottom)),
              firstSliceOriginalHeight |-> At(slices, bs.pos).y,
              startSlice |-> bs.pos + 1]
        ELSE [slices |-> Insert(slices, bs.pos, Point(left, bottom)),
              firstSliceOriginalHeight |-> At(slices, bs.pos - 1).y,
              startSlice |-> bs.pos + 1]

\* height to return to at the right end when the end is no slice start
ReturnHeightAlwaysFirst(slices, startSlice, endSlice, firstSliceOriginalHeight) ==
    firstSliceOriginalHeight
ReturnHeight(slices, startSlice, endSlice, firstSliceOriginalHeight) ==
    IF endSlice = startSlice
    THEN firstSliceOriginalHeight
    ELSE At(slices, endSlice - 1).y

\* "if right < self.packingAreaWidth": the rectangle ends inside the area,
\* so a slice has to begin at its right end
EndsInsideOrAtEdge(right, W) == right <= W
EndsInside(right, W) == right < W

\* second half: the slices covered by the rectangle and its right end
IntegrateRight(slices, W, right, startSlice, firstSliceOriginalHeight) ==
    IF startSlice >= Len(slices)
    THEN IF EndsInside(right, W)
         THEN Append(slices, Point(right, firstSliceOriginalHeight))
         ELSE slices
    ELSE LET bs == binary_search(slices, Point(right, 0), startSlice,
                                 Len(slices))
             endSlice == bs.pos
         IN  IF bs.hit
             THEN DelRange(slices, startSlice, endSlice)
             ELSE LET returnHeight ==
                          ReturnHeight(slices, startSlice, endSlice,
                                       firstSliceOriginalHeight)
                      cut == DelRange(slices, startSlice, endSlice)
                  IN  IF EndsInside(right, W)
                      THEN Insert(cut, startSlice, Point(right, returnHeight))
                      ELSE cut

integrateRectangle(slices, W, left, width, bottom) ==
    LET l == IntegrateLeft(slices, left, bottom)
    IN  IntegrateRight(l.slices, W, left + width, l.startSlice,
                       l.firstSliceOriginalHeight)

(* ---------------- TryPack / Pack ---------------- *)
\* the early return for a rectangle larger than the packing area
OversizedWidthOnly(W, H, rectangleWidth, rectangleHeight) ==
    rectangleWidth > W
Oversized(W, H, rectangleWidth, rectangleHeight) ==
    rectangleWidth > W \/ rectangleHeight > H

\* CygonRectanglePacker.TryPack: the returned placement, the slice table
\* after the call and whether the search ran
TryPack(slices, W, H, rectangleWidth, rectangleHeight) ==
    IF Oversized(W, H, rectangleWidth, rectangleHeight)
    THEN [placement |-> None, slices |-> slices, searched |-> FALSE]
    ELSE LET placement == tryFindBestPlacement(slices, W, H, rectangleWidth,
                                               rectangleHeight)
         IN  IF Found(placement)
             THEN [placement |-> placement,
                   slices |-> integrateRectangle(slices, W, placement.x,
                                 rectangleWidth,
                                 placement.y + rectangleHeight),
                   searched |-> TRUE]
             ELSE [placement |-> placement, slices |-> slices,
                   searched |-> TRUE]

\* RectanglePacker.Pack: TryPack, then OutOfSpaceError when "not point"
Pack(slices, W, H, rectangleWidth, rectangleHeight) ==
    LET r == TryPack(slices, W, H, rectangleWidth, rectangleHeight)
    IN  [placement |-> r.placement, slices |-> r.slices,
         searched |-> r.searched, raised |-> Raises(r.placement)]

(* ---------------- nearest_pow2 ---------------- *)
\* Python's a & b for a >= 0 (with a = 0 the result is 0 whatever b is)
RECURSIVE BitAnd(_, _)
BitAnd(a, b) ==
    IF a = 0 \/ b = 0
    THEN 0
    ELSE (a % 2) * (b % 2) + 2 * BitAnd(a \div 2, b \div 2)

\* the loop "n = m; m = n & (n-1); while m: ..." that strips the lowest set
\* bit until one bit is left
RECURSIVE StripLowBits(_)
StripLowBits(n) ==
    LET m == BitAnd(n, n - 1)
    IN  IF m # 0 THEN StripLowBits(m) ELSE n

\* nearest_pow2(n) for n >= 0
NearestPow2AlwaysDoubles(n) == 2 * StripLowBits(n)
nearest_pow2(n) ==
    LET m == BitAnd(n, n - 1)
    IN  IF m = 0 THEN n ELSE 2 * StripLowBits(m)

\* nearest_pow2(n) never returns for n < 0: a negative Python integer has
\* infinitely many set bits, so n & (n-1) never becomes 0
Pow2Diverges(n) == n < 0

(* ---------------- state ---------------- *)
VARIABLES
    packingAreaWidth,   \* self.packingAreaWidth
    packingAreaHeight,  \* self.packingAreaHeight
    heightSlices,       \* self.heightSlices
    op,                 \* the last call: "new", "TryPack" or "Pack"
    arg,                \* <<rectangleWidth, rectangleHeight>> of the last call
    ret,                \* the Point the last call returned, or None
    raised,             \* the last call raised OutOfSpaceError
    searched,           \* the last call ran tryFindBestPlacement
    before,             \* heightSlices as it was when the last call began
    areaBefore,         \* <<packingAreaWidth, packingAreaHeight>> at that time
    placed,             \* the rectangles placed so far, in order
    ncalls,             \* number of TryPack/Pack calls made so far
    pc,                 \* where generate_atlas_and_map is: "idle" (not
                        \* running), "start", "loop", "done", "aborted",
                        \* "hung" (inside a nearest_pow2 that never returns)
    args,               \* its arguments pow2, max_w, max_h, pad, only_visible
    layers,             \* tmp_img.layers
    layerIndex,         \* number of layers the for loop has gone through
    tex_rects,          \* tex_rects
    messages,           \* what pdb.gimp_message was called with, in order
    mapFile             \* the lines of the map file, NotWritten before

packerVars == <<packingAreaWidth, packingAreaHeight, heightSlices, op, arg,
                ret, raised, searched, before, areaBefore, placed, ncalls>>

driverVars == <<pc, args, layers, layerIndex, tex_rects, messages,
                mapFile>>

vars == <<packingAreaWidth, packingAreaHeight, heightSlices, op, arg, ret,
          raised, searched, before, areaBefore, placed, ncalls,
          pc, args, layers, layerIndex, tex_rects, messages, mapFile>>

\* the map file has not been opened
NotWritten == [written |-> FALSE, lines |-> <<>>]

\* generate_atlas_and_map is not running
DriverIdle ==
    /\ pc = "idle"
    /\ args = [pow2 |-> FALSE, max_w |-> 0, max_h |-> 0, pad |-> 0,
               only_visible |-> FALSE]
    /\ layers = <<>>
    /\ layerIndex = 0
    /\ tex_rects = <<>>
    /\ messages = <<>>
    /\ mapFile = NotWritten

\* CygonRectanglePacker.__init__(W, H)
New(W, H) ==
    /\ packingAreaWidth = W
    /\ packingAreaHeight = H
    /\ heightSlices = <<Point(0, 0)>>
    /\ op = "new"
    /\ arg = <<0, 0>>
    /\ ret = None
    /\ raised = FALSE
    /\ searched = FALSE
    /\ before = <<Point(0, 0)>>
    /\ areaBefore = <<W, H>>
    /\ placed = <<>>
    /\ ncalls = 0

Init == DriverIdle /\ \E W \in 1..MaxW, H \in 1..MaxH : New(W, H)

\* what a call leaves behind
Called(name, w, h, r, didRaise) ==
    /\ ncalls' = ncalls + 1
    /\ op' = name
    /\ arg' = <<w, h>>
    /\ ret' = IF didRaise THEN None ELSE r.placement
    /\ raised' = didRaise
    /\ searched' = r.searched
    /\ before' = heightSlices
    /\ areaBefore' = <<packingAreaWidth, packingAreaHeight>>
    /\ heightSlices' = r.slices
    /\ placed' = IF r.placement # None
                 THEN Append(placed, [x |-> r.placement.x,
                                      y |-> r.placement.y,
                                      width |-> w, height |-> h])
                 ELSE placed
    /\ UNCHANGED <<packingAreaWidth, packingAreaHeight>>

\* packer.TryPack(w, h)
TryPackCall(w, h) ==
    /\ Called("TryPack", w, h,
              TryPack(heightSlices, packingAreaWidth, packingAreaHeight,
                      w, h),
              FALSE)
    /\ UNCHANGED driverVars

\* packer.Pack(w, h)
PackCall(w, h) ==
    /\ LET r == Pack(heightSlices, packingAreaWidth, packingAreaHeight, w, h)
       IN  Called("Pack", w, h, r, r.raised)
    /\ UNCHANGED driverVars

\* any rectangle up to one unit larger than the area may be asked for, in
\* at most MaxCalls calls
Next ==
    \/ /\ ncalls < MaxCalls
       /\ \E w \in 1..(packingAreaWidth + 1),
             h \in 1..(packingAreaHeight + 1) : TryPackCall(w, h)
    \/ /\ ncalls < MaxCalls
       /\ \E w \in 1..(packingAreaWidth + 1),
             h \in 1..(packingAreaHeight + 1) : PackCall(w, h)

Spec == Init /\ [][Next]_vars

(* ---------------- the 10 x 10 scenarios ---------------- *)
\* area and rectangles of the documented scenarios
ScenarioArea == <<10, 10>>
ScenarioRects == {<<10, 5>>, <<4, 3>>, <<3, 2>>, <<10, 1>>, <<5, 1>>, <<11, 1>>}

ScenarioInit == DriverIdle /\ New(ScenarioArea[1], ScenarioArea[2])

ScenarioNext ==
    \/ /\ ncalls < MaxCalls
       /\ \E d \in ScenarioRects : TryPackCall(d[1], d[2])
    \/ /\ ncalls < MaxCalls
       /\ \E d \in ScenarioRects : PackCall(d[1], d[2])

ScenarioSpec == ScenarioInit /\ [][ScenarioNext]_vars

(* ---------------- longer runs of small rectangles ---------------- *)
\* a 5 x 3 area filled with rectangles one or two units wide and high, in
\* runs of up to MaxSmallCalls calls
MaxSmallCalls == 5
SmallArea == <<5, 3>>
SmallRects == {<<1, 1>>, <<1, 2>>, <<2, 1>>}

SmallInit == DriverIdle /\ New(SmallArea[1], SmallArea[2])

SmallNext ==
    \/ /\ ncalls < MaxSmallCalls
       /\ \E d \in SmallRects : TryPackCall(d[1], d[2])
    \/ /\ ncalls < MaxSmallCalls
       /\ \E d \in SmallRects : PackCall(d[1], d[2])

SmallSpec == SmallInit /\ [][SmallNext]_vars

(* ---------------- generate_atlas_and_map ---------------- *)
\* bounds of the driver's inputs
MaxLayers == 2
MaxPow2Side == 17

\* values of max_w and max_h, of pad, and sizes of the layers
DriverSides == {-1, 0, 2, 5}
Pads == {-1, 0, 1}
LayerSizes == {<<1, 1>>, <<2, 1>>, <<2, 2>>}
LayerNames == <<"a", "b", "c", "d">>

\* the messages of lines 342, 344 and 398
MsgMax == "Maximum width or height must be larger than or equal to 1!"
MsgPad == "Padding must be non-negative!"
MsgFailed == "Error: failed to pack layer"

\* all layer lists of n layers: any size, visible or not, named by position
LayerLists(n) ==
    {[k \in 1..n |-> [width |-> f[k][1][1], height |-> f[k][1][2],
                      visible |-> f[k][2], name |-> LayerNames[k]]] :
        f \in [1..n -> LayerSizes \X BOOLEAN]}

\* no packer has been constructed yet
NoPacker ==
    /\ packingAreaWidth = 0
    /\ packingAreaHeight = 0
    /\ heightSlices = <<>>
    /\ op = "none"
    /\ arg = <<0, 0>>
    /\ ret = None
    /\ raised = FALSE
    /\ searched = FALSE
    /\ before = <<>>
    /\ areaBefore = <<0, 0>>
    /\ placed = <<>>
    /\ ncalls = 0

\* the plug-in is started with the arguments a and the layers ls
Started(a, ls) ==
    /\ NoPacker
    /\ pc = "start"
    /\ args = a
    /\ layers = ls
    /\ layerIndex = 0
    /\ tex_rects = <<>>
    /\ messages = <<>>
    /\ mapFile = NotWritten

\* "Logic check of args": the messages shown; output_name and output_dir
\* are given
CheckMessages(a) ==
    (IF a.max_w < 1 \/ a.max_h < 1 THEN <<MsgMax>> ELSE <<>>)
        \o (IF a.pad < 0 THEN <<MsgPad>> ELSE <<>>)

\* img_w / img_h: "nearest_pow2(max) if pow2 else max"
ImageSideIgnoresPow2(pow2, max) == max
ImageSide(pow2, max) == IF pow2 THEN nearest_pow2(max) ELSE max

\* rect_packer = CygonRectanglePacker(W, H)
Constructed(W, H) ==
    /\ packingAreaWidth' = W
    /\ packingAreaHeight' = H
    /\ heightSlices' = <<Point(0, 0)>>
    /\ op' = "new"
    /\ arg' = <<0, 0>>
    /\ ret' = None
    /\ raised' = FALSE
    /\ searched' = FALSE
    /\ before' = <<Point(0, 0)>>
    /\ areaBefore' = <<W, H>>
    /\ placed' = <<>>
    /\ ncalls' = 0

\* lines 334-364: the checks, the image size, the packer
DriverStart ==
    /\ pc = "start"
    /\ messages' = CheckMessages(args)
    /\ IF args.pow2 /\ (Pow2Diverges(args.max_w) \/ Pow2Diverges(args.max_h))
       THEN /\ pc' = "hung"
            /\ UNCHANGED packerVars
       ELSE /\ pc' = "loop"
            /\ Constructed(ImageSide(args.pow2, args.max_w),
                           ImageSide(args.pow2, args.max_h))
    /\ UNCHANGED <<args, layers, layerIndex, tex_rects, mapFile>>

\* the layer the for loop is at
Layer == layers[layerIndex + 1]

\* lines 373-375: an invisible layer is made visible unless only the visible
\* layers are wanted; the layer is packed if it is visible then
PackedAnyway(layer, only_visible) == ~ (layer.visible \/ only_visible)
MadeVisible(layer, only_visible) ==
    IF PackedAnyway(layer, only_visible)
    THEN [layer EXCEPT !.visible = TRUE]
    ELSE layer

\* TextureRect(pos.x, pos.y, layer.width, layer.height, name)
TextureRectPadded(pos, layer, pad) ==
    [x |-> pos.x, y |-> pos.y, width |-> layer.width + pad,
     height |-> layer.height + pad, name |-> layer.name]
TextureRect(pos, layer, pad) ==
    [x |-> pos.x, y |-> pos.y, width |-> layer.width,
     height |-> layer.height, name |-> layer.name]

\* TextureRect.__str__: x y w h "name", as the list of its fields
Str(rect) ==
    <<rect.x, rect.y, rect.width, rect.height, <<"\"", rect.name, "\"">>>>

\* one pass of the for loop over a layer that stays invisible
SkipLayer ==
    /\ pc = "loop"
    /\ layerIndex < Len(layers)
    /\ ~ MadeVisible(Layer, args.only_visible).visible
    /\ layerIndex' = layerIndex + 1
    /\ UNCHANGED <<pc, args, layers, tex_rects, messages, mapFile>>
    /\ UNCHANGED packerVars

\* one pass of the for loop over a visible layer: TryPack of the padded
\* size, then the rectangle is registered or the run is aborted
PackLayer ==
    /\ pc = "loop"
    /\ layerIndex < Len(layers)
    /\ LET layer == MadeVisible(Layer, args.only_visible)
           w == layer.width + args.pad
           h == layer.height + args.pad
           r == TryPack(heightSlices, packingAreaWidth, packingAreaHeight,
                        w, h)
       IN  /\ layer.visible
           /\ layers' = [layers EXCEPT ![layerIndex + 1] = layer]
           /\ Called("TryPack", w, h, r, FALSE)
           /\ IF Found(r.placement)
              THEN /\ tex_rects' = Append(tex_rects,
                                     TextureRect(r.placement, layer, args.pad))
                   /\ layerIndex' = layerIndex + 1
                   /\ UNCHANGED <<pc, messages>>
              ELSE /\ pc' = "aborted"
                   /\ messages' = Append(messages, MsgFailed)
                   /\ UNCHANGED <<tex_rects, layerIndex>>
    /\ UNCHANGED <<args, mapFile>>

\* lines 404-439 after the loop: the map file is written
DriverFinish ==
    /\ pc = "loop"
    /\ layerIndex = Len(layers)
    /\ mapFile' = [written |-> TRUE,
                    lines |-> [k \in 1..Len(tex_rects) |-> Str(tex_rects[k])]]
    /\ pc' = "done"
    /\ UNCHANGED <<args, layers, layerIndex, tex_rects, messages>>
    /\ UNCHANGED packerVars

DriverInit ==
    \E a \in [pow2 : BOOLEAN, max_w : DriverSides, max_h : DriverSides,
              pad : Pads, only_visible : BOOLEAN],
       n \in 0..MaxLayers :
        \E ls \in LayerLists(n) : Started(a, ls)

DriverNext ==
    \/ DriverStart
    \/ SkipLayer
    \/ PackLayer
    \/ DriverFinish

DriverSpec == DriverInit /\ [][DriverNext]_vars

\* runs without layers, for every max_w and max_h from 1 to MaxPow2Side
Pow2Init ==
    \E a \in [pow2 : BOOLEAN, max_w : 1..MaxPow2Side, max_h : 1..MaxPow2Side,
              pad : {0}, only_visible : BOOLEAN] :
        Started(a, <<>>)

Pow2Next ==
    \/ DriverStart
    \/ DriverFinish

Pow2Spec == Pow2Init /\ [][Pow2Next]_vars

(* ---------------- vocabulary of the properties ---------------- *)
\* a call has been made and it returned a placement
Placed == op \in {"TryPack", "Pack"} /\ ret # None

\* last column of the span of breakpoint i (the span ends where the next
\* breakpoint starts, the last one at the area width)
SpanEnd(slices, W, i) ==
    IF i = Len(slices) THEN W ELSE slices[i + 1].x

\* breakpoints whose span contains column c
SpansContaining(slices, W, c) ==
    {i \in 1..Len(slices) : slices[i].x <= c /\ c < SpanEnd(slices, W, i)}

\* profile height at column c: the height of the last breakpoint with x <= c
ColumnHeight(slices, c) ==
    LET I == {i \in 1..Len(slices) : slices[i].x <= c}
        last == CHOOSE i \in I : \A j \in I : j <= i
    IN  slices[last].y

\* maximum profile height over the columns [x, x + width)
MaxHeightOver(slices, x, width) ==
    LET hs == {ColumnHeight(slices, c) : c \in x..(x + width - 1)}
    IN  CHOOSE m \in hs : \A k \in hs : k <= m

\* two placed rectangles share a cell
Overlap(r1, r2) ==
    /\ r1.x < r2.x + r2.width
    /\ r2.x < r1.x + r1.width
    /\ r1.y < r2.y + r2.height
    /\ r2.y < r1.y + r1.height

(* ---------------- C1 ---------------- *)
\* C1: in every state heightSlices is non-empty, starts with a breakpoint at
\* x = 0, has strictly increasing x-values all below packingAreaWidth, and
\* every column of [0, packingAreaWidth) lies in exactly one breakpoint's span
C1_Coverage ==
    /\ Len(heightSlices) >= 1
    /\ heightSlices[1].x = 0
    /\ \A i \in 1..(Len(heightSlices) - 1) :
           heightSlices[i].x < heightSlices[i + 1].x
    /\ \A i \in 1..Len(heightSlices) : heightSlices[i].x < packingAreaWidth
    /\ \A c \in 0..(packingAreaWidth - 1) :
           Cardinality(SpansContaining(heightSlices, packingAreaWidth, c)) = 1

\* a profile of three breakpoints, two rectangles placed, seen after a call
\* that found no place
C1_Witness ==
    /\ Len(heightSlices) >= 3
    /\ Len(placed) >= 2
    /\ op = "TryPack"
    /\ ret = None

(* ---------------- C2 ---------------- *)
\* C2: any two distinct rectangles that were placed do not overlap
C2_NoOverlap ==
    \A i, j \in 1..Len(placed) : i # j => ~Overlap(placed[i], placed[j])

\* three rectangles, one of them resting on top of another and one beside
C2_Witness ==
    /\ Len(placed) >= 3
    /\ \E i, j \in 1..Len(placed) :
           /\ placed[j].y = placed[i].y + placed[i].height
           /\ placed[j].x < placed[i].x + placed[i].width
           /\ placed[i].x < placed[j].x + placed[j].width
    /\ \E i, j \in 1..Len(placed) :
           placed[j].x >= placed[i].x + placed[i].width

(* ---------------- C3 ---------------- *)
\* C3: a returned placement lies inside the packing area, x >= 0, y >= 0,
\* x + width <= packingAreaWidth and y + height < packingAreaHeight
C3_InsideArea ==
    Placed =>
        /\ ret.x >= 0
        /\ ret.y >= 0
        /\ ret.x + arg[1] <= packingAreaWidth
        /\ ret.y + arg[2] < packingAreaHeight

\* a placement away from both axes, one row below the top of the area
C3_Witness ==
    /\ Placed
    /\ ret.x > 0
    /\ ret.y > 0
    /\ ret.y + arg[2] = packingAreaHeight - 1

(* ---------------- C4 ---------------- *)
\* C4: a placement (x, y) returned by TryPack is as low as possible: no
\* position x' with x' + width <= packingAreaWidth has a maximum profile
\* height over [x', x' + width) below y while keeping the rectangle under
\* packingAreaHeight
C4_LowestPossible ==
    (op = "TryPack" /\ ret # None) =>
        ~ \E xq \in 0..(packingAreaWidth - arg[1]) :
              /\ MaxHeightOver(before, xq, arg[1]) < ret.y
              /\ MaxHeightOver(before, xq, arg[1]) + arg[2]
                     < packingAreaHeight

(* ---------------- C5 ---------------- *)
\* C5: TryPack of a rectangle no larger than the area returns None only if
\* no breakpoint x with x + width <= packingAreaWidth has
\* (maximum profile height over [x, x + width)) + height below
\* packingAreaHeight
C5_Complete ==
    (/\ op = "TryPack"
     /\ ret = None
     /\ arg[1] <= packingAreaWidth
     /\ arg[2] <= packingAreaHeight) =>
        ~ \E i \in 1..Len(before) :
              /\ before[i].x + arg[1] <= packingAreaWidth
              /\ MaxHeightOver(before, before[i].x, arg[1]) + arg[2]
                     < packingAreaHeight

(* ---------------- C6 ---------------- *)
\* C6: a TryPack that returns None and a Pack that raises OutOfSpaceError
\* leave heightSlices and the area's width and height as they were
C6_FailureChangesNothing ==
    ((op = "TryPack" /\ ret = None) \/ (op = "Pack" /\ raised)) =>
        /\ heightSlices = before
        /\ <<packingAreaWidth, packingAreaHeight>> = areaBefore

\* a Pack that raised after searching a profile of several breakpoints
C6_Witness ==
    /\ op = "Pack"
    /\ raised
    /\ searched
    /\ Len(heightSlices) >= 2

(* ---------------- C7 ---------------- *)
\* C7: a rectangle wider or taller than the area is refused without a
\* search, Pack raises, and the profile is unchanged
C7_OversizedRejected ==
    (/\ op \in {"TryPack", "Pack"}
     /\ (arg[1] > packingAreaWidth \/ arg[2] > packingAreaHeight)) =>
        /\ ret = None
        /\ ~searched
        /\ heightSlices = before
        /\ (op = "Pack" => raised)

\* area 4 x 4, TryPack(5, 1) on the fresh packer: None, profile still (0, 0)
C7_Witness ==
    /\ packingAreaWidth = 4
    /\ packingAreaHeight = 4
    /\ ncalls = 1
    /\ op = "TryPack"
    /\ arg = <<5, 1>>
    /\ ret = None
    /\ heightSlices = <<Point(0, 0)>>

(* ---------------- C8 ---------------- *)
\* C8: Pack returns the placement TryPack returns on the same profile and
\* leaves the same profile, and it raises exactly when TryPack returns None
C8_PackIsTryPack ==
    op = "Pack" =>
        LET t == TryPack(before, packingAreaWidth, packingAreaHeight,
                         arg[1], arg[2])
        IN  /\ raised <=> (t.placement = None)
            /\ t.placement # None =>
                   (ret = t.placement /\ heightSlices = t.slices)

\* a Pack that returned the origin
C8_Witness ==
    /\ op = "Pack"
    /\ ~raised
    /\ ret = Point(0, 0)
    /\ heightSlices # before

C10_ScenarioB ==
    /\ (/\ <<packingAreaWidth, packingAreaHeight>> = <<10, 10>>
        /\ ncalls = 1
        /\ op = "TryPack"
        /\ arg = <<10, 5>>) => ret = Point(0, 0)
    /\ (/\ <<packingAreaWidth, packingAreaHeight>> = <<10, 10>>
        /\ ncalls = 2
        /\ op = "TryPack"
        /\ arg = <<10, 5>>
        /\ before = <<Point(0, 5)>>
        /\ Len(placed) >= 1
        /\ placed[1] = [x |-> 0, y |-> 0, width |-> 10, height |-> 5]) =>
           (ret = Point(0, 5) /\ heightSlices = <<Point(0, 10)>>)

(* ---------------- C11 ---------------- *)
\* the first two calls of scenario A on a fresh 10 x 10 packer:
\* TryPack(4, 3) returns (0, 0), a second TryPack(4, 3) returns (4, 0)
ScenarioA_FirstTwo ==
    /\ (/\ <<packingAreaWidth, packingAreaHeight>> = <<10, 10>>
        /\ ncalls = 1
        /\ op = "TryPack"
        /\ arg = <<4, 3>>) => ret = Point(0, 0)
    /\ (/\ <<packingAreaWidth, packingAreaHeight>> = <<10, 10>>
        /\ ncalls = 2
        /\ op = "TryPack"
        /\ arg = <<4, 3>>
        /\ before = <<Point(0, 3), Point(4, 0)>>) => ret = Point(4, 0)

\* the state after the third TryPack(4, 3) of scenario A
ScenarioA_Third ==
    /\ <<packingAreaWidth, packingAreaHeight>> = <<10, 10>>
    /\ ncalls = 3
    /\ op = "TryPack"
    /\ arg = <<4, 3>>
    /\ before = <<Point(0, 3), Point(4, 3), Point(8, 0)>>
    /\ Len(placed) >= 2
    /\ placed[1] = [x |-> 0, y |-> 0, width |-> 4, height |-> 3]
    /\ placed[2] = [x |-> 4, y |-> 0, width |-> 4, height |-> 3]

\* C11: on a fresh 10 x 10 packer TryPack(4, 3) returns (0, 0), a second
\* TryPack(4, 3) returns (4, 0) and a third TryPack(4, 3) returns None
C11_ScenarioA ==
    /\ ScenarioA_FirstTwo
    /\ ScenarioA_Third => ret = None

\* C11 as amended: the first two calls return (0, 0) and (4, 0); the third
\* TryPack(4, 3) does not fit beside them and is placed on top of the first
\* rectangle, at (0, 3), leaving the profile (0, 6), (4, 3), (8, 0)
C11_ScenarioA_Stacked ==
    /\ ScenarioA_FirstTwo
    /\ ScenarioA_Third =>
           /\ ret = Point(0, 3)
           /\ heightSlices = <<Point(0, 6), Point(4, 3), Point(8, 0)>>

\* the third call of scenario A has been made
C11_Witness == ScenarioA_Third /\ Len(placed) = 3

(* ---------------- C12 ---------------- *)
\* C12: a placement (x, y) returned by TryPack is the leftmost one at that
\* height: no breakpoint x' < x with x' + width <= packingAreaWidth has all
\* its columns [x', x' + width) at most y high
C12_LeftmostAtHeight ==
    (op = "TryPack" /\ ret # None) =>
        ~ \E i \in 1..Len(before) :
              /\ before[i].x < ret.x
              /\ before[i].x + arg[1] <= packingAreaWidth
              /\ MaxHeightOver(before, before[i].x, arg[1]) <= ret.y
              /\ ret.y + arg[2] < packingAreaHeight

(* ---------------- C13 ---------------- *)
\* C13: when TryPack returns (x, y), every profile column of [x, x + width)
\* was at most y high before the call
C13_ClearsWholeSpan ==
    (op = "TryPack" /\ ret # None) =>
        \A c \in ret.x..(ret.x + arg[1] - 1) : ColumnHeight(before, c) <= ret.y

\* a placement whose height comes from a column further right than x
C13_Witness ==
    /\ op = "TryPack"
    /\ ret # None
    /\ ColumnHeight(before, ret.x) < ret.y
    /\ \E c \in ret.x..(ret.x + arg[1] - 1) : ColumnHeight(before, c) = ret.y

(* ---------------- C14 ---------------- *)
\* C14: at every position the search looks at, `highest` is exactly the
\* maximum profile height over the columns [x, x + width) the rectangle
\* would cover there
C14_ExactWindow ==
    (op = "TryPack" /\ searched) =>
        LET ev == Evaluated(before, packingAreaWidth, arg[1])
        IN  \A k \in 1..Len(ev) :
                ev[k].highest =
                    MaxHeightOver(before, At(before, ev[k].left).x, arg[1])

(* ---------------- C15 ---------------- *)
\* tops (y + height) of the placed rectangles whose span contains column c
TopsOver(c) ==
    {placed[i].y + placed[i].height : i \in
        {j \in 1..Len(placed) :
            placed[j].x <= c /\ c < placed[j].x + placed[j].width}}

\* the greatest of a non-empty set of numbers
MaxOf(S) == CHOOSE m \in S : \A k \in S : k <= m

\* C15: the profile height of every column of [0, packingAreaWidth) is the
\* highest top of the placed rectangles covering the column, 0 if there is
\* none
C15_ProfileIsTruthful ==
    \A c \in 0..(packingAreaWidth - 1) :
        ColumnHeight(heightSlices, c) = MaxOf(TopsOver(c) \cup {0})

\* a rectangle has just been laid over two or more slices and ends strictly
\* inside a later slice, so the height behind it had to be restored
C15_Witness ==
    /\ Placed
    /\ LET right == ret.x + arg[1]
       IN  /\ right < packingAreaWidth
           /\ \A i \in 1..Len(before) : before[i].x # right
           /\ Cardinality({i \in 1..Len(before) :
                  ret.x <= before[i].x /\ before[i].x < right}) >= 2
           /\ ColumnHeight(heightSlices, right) > 0

(* ---------------- C16 ---------------- *)
\* C16: after a successful call no two adjacent breakpoints of heightSlices
\* carry the same height
C16_NoEqualNeighbours ==
    Placed =>
        \A i \in 1..(Len(heightSlices) - 1) :
            heightSlices[i].y # heightSlices[i + 1].y

\* C16 as amended: after a successful call the breakpoints the rectangle
\* covered are gone: exactly one breakpoint lies in [x, x + width), the one
\* at x with height y + height, and the profile has at most one breakpoint
\* more than before.  Adjacent breakpoints may carry the same height.
C16_CoveredSlicesRemoved ==
    Placed =>
        /\ \A i \in 1..Len(heightSlices) :
               (/\ ret.x <= heightSlices[i].x
                /\ heightSlices[i].x < ret.x + arg[1]) =>
                   heightSlices[i] = Point(ret.x, ret.y + arg[2])
        /\ \E i \in 1..Len(heightSlices) : heightSlices[i].x = ret.x
        /\ Len(heightSlices) <= Len(before) + 1

\* a rectangle has just covered a breakpoint, and the profile it leaves has
\* two adjacent breakpoints of the same height
C16_Witness ==
    /\ Placed
    /\ \E i \in 1..Len(before) :
           ret.x < before[i].x /\ before[i].x < ret.x + arg[1]
    /\ \E i \in 1..(Len(heightSlices) - 1) :
           heightSlices[i].y = heightSlices[i + 1].y

(* ---------------- C20 ---------------- *)
\* C20: across a successful TryPack no column of [0, packingAreaWidth) gets
\* lower, the columns outside [x, x + width) keep their height and the
\* columns inside end at y + height
C20_MonotoneSilhouette ==
    (op = "TryPack" /\ ret # None) =>
        \A c \in 0..(packingAreaWidth - 1) :
            /\ ColumnHeight(heightSlices, c) >= ColumnHeight(before, c)
            /\ IF ret.x <= c /\ c < ret.x + arg[1]
               THEN ColumnHeight(heightSlices, c) = ret.y + arg[2]
               ELSE ColumnHeight(heightSlices, c) = ColumnHeight(before, c)

\* a rectangle placed with columns left on both sides of it, on a profile
\* that was not flat under it
C20_Witness ==
    /\ op = "TryPack"
    /\ ret # None
    /\ ret.x > 0
    /\ ret.x + arg[1] < packingAreaWidth
    /\ \E c \in ret.x..(ret.x + arg[1] - 1) :
           ColumnHeight(before, c) < ret.y


(* ---------------- the driver's claims ---------------- *)
\* p is a power of two
RECURSIVE IsPow2(_)
IsPow2(p) == p = 1 \/ (p > 1 /\ p % 2 = 0 /\ IsPow2(p \div 2))

\* the smallest power of two that is at least n, for n >= 1
SmallestPow2AtLeast(n) ==
    CHOOSE p \in n..(2 * n) :
        /\ IsPow2(p)
        /\ \A q \in n..(2 * n) : IsPow2(q) => p <= q

\* the side of the area the claim expects for a maximum side
ExpectedSide(pow2, max) == IF pow2 THEN SmallestPow2AtLeast(max) ELSE max

\* the packer exists: CygonRectanglePacker(img_w, img_h) has run
PackerConstructed == op # "none"

\* C18: for every n >= 1 nearest_pow2(n) is the smallest power of two that is
\* at least n (n itself when n is a power of two), and the packer is
\* constructed with the rounded sides when pow2 is set and with max_w and
\* max_h verbatim otherwise.
C18_BoundsDerivation ==
    /\ args.max_w >= 1 =>
           nearest_pow2(args.max_w) = SmallestPow2AtLeast(args.max_w)
    /\ args.max_h >= 1 =>
           nearest_pow2(args.max_h) = SmallestPow2AtLeast(args.max_h)
    /\ (PackerConstructed /\ args.max_w >= 1 /\ args.max_h >= 1) =>
           /\ packingAreaWidth = ExpectedSide(args.pow2, args.max_w)
           /\ packingAreaHeight = ExpectedSide(args.pow2, args.max_h)

\* a packer built for 5 by 16 with pow2 set: 8 by 16
C18_Witness ==
    /\ PackerConstructed
    /\ args.pow2
    /\ args.max_w = 5
    /\ args.max_h = 16
    /\ packingAreaWidth = 8
    /\ packingAreaHeight = 16

\* the layers the loop has gone through and packed: a layer that was packed
\* is visible afterwards, a layer that was skipped is not
PackedLayers ==
    SelectSeq(SubSeq(layers, 1, layerIndex), LAMBDA layer : layer.visible)

\* one line for every successful TryPack of the run, in encounter order:
\* the position TryPack returned, the layer's own size, the quoted name
ExpectedLines ==
    [k \in 1..Len(placed) |->
        <<placed[k].x, placed[k].y, PackedLayers[k].width,
          PackedLayers[k].height, <<"\"", PackedLayers[k].name, "\"">>>>]

\* C17 as stated: at the end of every run, also of a run in which a later
\* layer fails to pack, the map file has exactly one line for every layer
\* whose TryPack succeeded, with its packed position, its unpadded size and
\* its name, in encounter order.
C17_MapRecordsEveryPacked ==
    pc \in {"done", "aborted"} =>
        /\ Len(PackedLayers) = Len(placed)
        /\ mapFile.lines = ExpectedLines

\* C17 amended: a run in which no layer fails writes exactly one line for
\* every packed layer, with its packed position, its unpadded size and its
\* name, in encounter order; a run in which a layer fails is aborted at that
\* layer and writes no map file.
C17_MapRecordsCompletedRuns ==
    /\ pc = "done" =>
           /\ Len(PackedLayers) = Len(placed)
           /\ mapFile.written
           /\ mapFile.lines = ExpectedLines
    /\ pc = "aborted" => mapFile = NotWritten

\* a completed run with padding that wrote two lines
C17_Witness ==
    /\ pc = "done"
    /\ args.pad = 1
    /\ mapFile.written
    /\ Len(mapFile.lines) = 2
    /\ mapFile.lines[2][1] > 0

\* the arguments pass the "Logic check of args"
ArgsValid == args.max_w >= 1 /\ args.max_h >= 1 /\ args.pad >= 0

\* C19: whenever the driver is in nearest_pow2, has constructed the packer or
\* calls TryPack, max_w >= 1, max_h >= 1 and pad >= 0: a run started with
\* other arguments stops after the message.
C19_ValidatedBeforePacking ==
    (PackerConstructed \/ pc = "hung") => ArgsValid

(* ---------------- the placement and the first search ---------------- *)
\* the last call found a placement
PlacedByLastCall == op \in {"TryPack", "Pack"} /\ Found(ret)

\* the x of the breakpoints the last call started from
BreakpointXs == {before[k].x : k \in 1..Len(before)}

\* the first binary_search of integrateRectangle in the last call
FirstSearch == binary_search(before, Point(ret.x, 0), 0, Len(before))

\* C21: every placement of tryFindBestPlacement has the x of a breakpoint of
\* heightSlices, so the first binary_search of integrateRectangle reports a
\* direct hit and the branch that inserts a slice inside another slice is
\* never taken: the slice that was hit is replaced in place.
C21_AlwaysDirectHit ==
    PlacedByLastCall =>
        /\ ret.x \in BreakpointXs
        /\ FirstSearch.hit
        /\ At(before, FirstSearch.pos).x = ret.x
        /\ IntegrateLeft(before, ret.x, ret.y + arg[2]).slices =
               SetAt(before, FirstSearch.pos, Point(ret.x, ret.y + arg[2]))

\* a rectangle placed on a breakpoint that is not the first one
C21_Witness ==
    /\ PlacedByLastCall
    /\ ret.x > 0
    /\ ret.y > 0
    /\ FirstSearch.hit
    /\ FirstSearch.pos > 0

====
